---- MODULE Spec2Model ----
(***************************************************************************)
(* A model of stranal_app/utility.py: the schema generator                 *)
(* (generate_schema), the validator (Validator), the exporter (ExportData) *)
(* and import_into_sqla_object.                                            *)
(*                                                                         *)
(* Python values are records [ty, v]: ty is the Python type's name and v a *)
(* printable form of the value.  Results of calls are records [exc, val]:  *)
(* exc is "none" when the call returned val, and the exception's class     *)
(* when it raised.                                                         *)
(***************************************************************************)
EXTENDS Integers, Sequences, FiniteSets, TLC

VARIABLES pc, args, result, validator, instance

vars == <<pc, args, result, validator, instance>>

\* ------------------------------------------------------------------ bounds

\* The largest number of columns of a model class.
MaxCols == 3

\* The largest number of names in an include, exclude or exclude_rules argument.
MaxSel == 1

\* The largest number of elements of a list of instances.
MaxLen == 2

\* ------------------------------------------------------------ Python values

None == [ty |-> "NoneType", v |-> "None"]

PyInt(s) == [ty |-> "int", v |-> s]

PyStr(s) == [ty |-> "str", v |-> s]

PyBool(s) == [ty |-> "bool", v |-> s]

Return(value) == [exc |-> "none", val |-> value]

Raise(cls) == [exc |-> cls, val |-> <<>>]

Idle == <<>>

SubsetsUpTo(S, n) == {X \in SUBSET S : Cardinality(X) <= n}

\* An optional argument: absent (Python's None) or a set of names.
NoArg == [given |-> FALSE, items |-> {}]

Arg(S) == [given |-> TRUE, items |-> S]

\* ----------------------------------------------------------- model classes

\* A column of a mapped class, with the attributes generate_schema and the
\* exporter read: default is <<>> when Column.default is None and <<d>> when
\* a default d is declared, d.arg being a Python value; length is <<>> when
\* the type declares no length.
Col(name, python_type, length, primary_key, default, server_default, nullable, unique) ==
    [name |-> name, python_type |-> python_type, length |-> length,
     primary_key |-> primary_key, default |-> default,
     server_default |-> server_default, nullable |-> nullable, unique |-> unique]

ColumnPool ==
    << Col("id", "int", <<>>, TRUE, <<>>, FALSE, FALSE, FALSE),
       Col("email", "str", <<120>>, FALSE, <<>>, FALSE, FALSE, TRUE),
       Col("active", "bool", <<>>, FALSE, <<PyBool("False")>>, FALSE, TRUE, FALSE),
       Col("created", "datetime", <<>>, FALSE, <<>>, TRUE, FALSE, FALSE),
       Col("title", "str", <<>>, FALSE, <<>>, FALSE, FALSE, FALSE),
       Col("score", "float", <<>>, FALSE, <<>>, FALSE, TRUE, FALSE) >>

ColumnNames == {ColumnPool[i].name : i \in DOMAIN ColumnPool}

RECURSIVE Pick(_, _)
\* The columns of the pool at the indexes in I, in the pool's order.
Pick(I, i) ==
    IF i > Len(ColumnPool) THEN <<>>
    ELSE (IF i \in I THEN <<ColumnPool[i]>> ELSE <<>>) \o Pick(I, i + 1)

\* A model class is its mapper's ordered columns (mapper.c).
ModelClasses == {Pick(I, 1) : I \in SubsetsUpTo(DOMAIN ColumnPool, MaxCols)}

Names(cols) == {cols[i].name : i \in DOMAIN cols}

\* --------------------------------------------------------- generate_schema

schema_type_conversions ==
    [t \in {"int", "str", "bool", "date", "datetime"} |->
        CASE t = "int" -> "integer"
          [] t = "str" -> "string"
          [] t = "bool" -> "boolean"
          [] t = "date" -> "string"
          [] t = "datetime" -> "string"]

\* schema_type_conversions.get(python_type): "None" when there is no entry.
SchemaType(python_type) ==
    IF python_type \in DOMAIN schema_type_conversions
    THEN schema_type_conversions[python_type]
    ELSE "None"

\* A filter in which a non-empty include decides alone.
ColumnSkippedIncludeWins(name, include, exclude) ==
    IF Cardinality(include) > 0 THEN name \notin include ELSE name \in exclude

\* The two `continue` tests at the head of the loop body.
ColumnSkipped(name, include, exclude) ==
    \/ Cardinality(include) > 0 /\ name \notin include
    \/ name \in exclude

RuleKinds == {"maxlength", "readonly", "required", "unique"}

\* exclude_rules = exclude_rules or []
ExcludeRules(exclude_rules) ==
    IF exclude_rules.given THEN exclude_rules.items ELSE {}

HasMaxLength(column, rules) ==
    /\ "readonly" \notin rules
    /\ column.python_type = "str"
    /\ column.length # <<>>

HasReadonly(column, rules) ==
    "readonly" \notin rules /\ column.primary_key

HasRequired(column, rules) ==
    /\ "required" \notin rules
    /\ column.default = <<>>
    /\ ~column.server_default
    /\ ~column.nullable
    /\ ~column.primary_key

HasUnique(column, rules) ==
    "unique" \notin rules /\ column.unique

\* The rule-set built for a column whose type has a mapping.
Prop(column, rules) ==
    ("type" :> SchemaType(column.python_type))
    @@ (IF HasMaxLength(column, rules) THEN "maxlength" :> column.length[1] ELSE <<>>)
    @@ (IF HasReadonly(column, rules) THEN "readonly" :> TRUE ELSE <<>>)
    @@ (IF HasRequired(column, rules) THEN "required" :> TRUE ELSE <<>>)
    @@ (IF HasUnique(column, rules) THEN "unique" :> TRUE ELSE <<>>)

RECURSIVE SchemaLoop(_, _, _, _, _, _)
\* for column in mapper.c, from the i-th column on, schema being the
\* dictionary built so far.
SchemaLoop(cols, i, include, exclude, rules, schema) ==
    IF i > Len(cols) THEN Return(schema)
    ELSE LET column == cols[i]
             name == column.name
         IN IF ColumnSkipped(name, include, exclude)
            THEN SchemaLoop(cols, i + 1, include, exclude, rules, schema)
            ELSE IF SchemaType(column.python_type) = "None"
            THEN Raise("LookupError")
            ELSE SchemaLoop(cols, i + 1, include, exclude, rules,
                            [k \in DOMAIN schema \cup {name} |->
                                IF k = name THEN Prop(column, rules) ELSE schema[k]])

generate_schema(model_class, include, exclude, exclude_rules) ==
    SchemaLoop(model_class, 1, include, exclude, ExcludeRules(exclude_rules), <<>>)

SchemaInputs ==
    [model_class : ModelClasses,
     include : SubsetsUpTo(ColumnNames, MaxSel),
     exclude : SubsetsUpTo(ColumnNames, MaxSel),
     exclude_rules : {NoArg} \cup {Arg(R) : R \in SubsetsUpTo(RuleKinds, MaxSel)}]

InitSchema ==
    /\ pc = "generate_schema"
    /\ args \in SchemaInputs
    /\ result = Idle
    /\ validator = Idle
    /\ instance = Idle

GenerateSchema ==
    /\ pc = "generate_schema"
    /\ result' = generate_schema(args.model_class, args.include, args.exclude,
                                 args.exclude_rules)
    /\ pc' = "schema_done"
    /\ UNCHANGED <<args, validator, instance>>

NextSchema == GenerateSchema

SpecSchema == InitSchema /\ [][NextSchema]_vars

\* --------------------------------------------------------------- ExportData

\* The self.exclude of export_from_sqla_object = ExportData(exclude=("org_id",)).
export_from_sqla_object == {"org_id"}

\* The relationships every mapped class of the model declares: org is
\* to-one, posts is to-many.
Relationships == <<"org", "posts">>

\* A Python object handed to the exporter.  An instance carries: sqla (whether
\* inspect() accepts it), persistent (inspect(obj).persistent), export_data
\* (what its own export_data method does: "absent" when it has none, "returns",
\* or the class of the exception the method raises), its columns and attribute
\* values, the keys of inspect(obj).unloaded, and its related objects: org is
\* <<>> (None) or <<o>>, posts is the list.  An unloaded relationship holds <<>>.
Object(ident, sqla, persistent, cap, columns, attrs, unloaded, org, posts) ==
    [kind |-> "instance", ident |-> ident, sqla |-> sqla, persistent |-> persistent,
     export_data |-> cap, columns |-> columns, attrs |-> attrs,
     unloaded |-> unloaded, org |-> org, posts |-> posts]

List(items) == [kind |-> "list", items |-> items]

NoneObject == [kind |-> "None"]

Dict(data) == [ty |-> "dict", v |-> data]

ListValue(items) == [ty |-> "list", v |-> items]

\* A default lookup that returns d.arg whatever its type.
get_column_defaultAnyArg(c) ==
    IF c.default # <<>> THEN c.default[1] ELSE None

\* _get_column_default(c)
get_column_default(c) ==
    IF c.default # <<>> /\ c.default[1].ty \in {"int", "str", "bool"}
    THEN c.default[1]
    ELSE None

\* (not include or name in include) and name not in exclude
ColumnExported(name, include, exclude) ==
    (include = {} \/ name \in include) /\ name \notin exclude

\* The value emitted for column c of obj.
ColumnValue(obj, c) ==
    LET column_value == obj.attrs[c.name]
    IN IF obj.persistent THEN column_value
       ELSE IF column_value = None THEN get_column_default(c)
       ELSE column_value

\* The dictionary after the loop over the columns.
ColumnData(obj, include, exclude) ==
    LET sel == {i \in DOMAIN obj.columns :
                    ColumnExported(obj.columns[i].name, include, exclude)}
    IN [name \in {obj.columns[i].name : i \in sel} |->
           LET i == CHOOSE j \in sel : obj.columns[j].name = name
           IN ColumnValue(obj, obj.columns[i])]

\* A test that forgets the unloaded relationships.
RelationshipExportedUnloadedToo(obj, key, exclude) ==
    key \notin exclude

\* key not in unloaded_relationships and key not in exclude
RelationshipExported(obj, key, exclude) ==
    key \notin obj.unloaded /\ key \notin exclude

\* getattr(obj, key) for a relationship key.
GetRelationship(obj, key) ==
    IF key = "org"
    THEN (IF obj.org = <<>> THEN NoneObject ELSE obj.org[1])
    ELSE List(obj.posts)

HasExportData(o) ==
    o.kind = "instance" /\ o.export_data # "absent"

\* Python's truth value of a relationship's value.
Truthy(o) ==
    CASE o.kind = "None" -> FALSE
      [] o.kind = "list" -> o.items # <<>>
      [] OTHER -> TRUE

\* item.export_data(include, exclude): the attribute lookup raises
\* AttributeError when the object has no such method.
export_data(o, include, exclude) ==
    CASE ~HasExportData(o) -> Raise("AttributeError")
      [] o.export_data = "returns" ->
            Return([ty |-> "custom", v |-> <<o.ident, include, exclude>>])
      [] OTHER -> Raise(o.export_data)

RECURSIVE Call(_, _, _, _)
RECURSIVE ExportDataEach(_, _, _, _, _)
RECURSIVE CallEach(_, _, _, _, _, _)
RECURSIVE RelationshipLoop(_, _, _, _, _)
RECURSIVE RelationshipsRead(_, _, _, _)

\* [item.export_data(include, exclude) for item in obj], from item i on.
ExportDataEach(items, i, include, exclude, acc) ==
    IF i > Len(items) THEN Return(ListValue(acc))
    ELSE LET r == export_data(items[i], Arg(include), Arg(exclude))
         IN IF r.exc # "none" THEN r
            ELSE ExportDataEach(items, i + 1, include, exclude, Append(acc, r.val))

\* [self(item, include, exclude) for item in obj], from item i on.
CallEach(self, items, i, include, exclude, acc) ==
    IF i > Len(items) THEN Return(ListValue(acc))
    ELSE LET r == Call(self, items[i], include, exclude)
         IN IF r.exc # "none" THEN r
            ELSE CallEach(self, items, i + 1, include, exclude, Append(acc, r.val))

\* The branch of __call__ taken for a list.
CallList(self, items, include, exclude) ==
    LET r == ExportDataEach(items, 1, include, exclude, <<>>)
    IN IF r.exc = "AttributeError"
       THEN IF HasExportData(items[1]) THEN r
            ELSE CallEach(self, items, 1, include, exclude, <<>>)
       ELSE r

\* A nested export through an exporter without the global exclusions.
NestedCallNoGlobal(self, rproperty) ==
    IF HasExportData(rproperty) THEN export_data(rproperty, NoArg, NoArg)
    ELSE IF Truthy(rproperty) THEN Call({}, rproperty, {}, {})
    ELSE Return(None)

\* The value stored under a relationship's key.
ExportRelationship(self, rproperty) ==
    IF HasExportData(rproperty) THEN export_data(rproperty, NoArg, NoArg)
    ELSE IF Truthy(rproperty) THEN Call(self, rproperty, {}, {})
    ELSE Return(None)

\* for key in relationship_keys, from the i-th key on.
RelationshipLoop(self, obj, i, exclude, data) ==
    IF i > Len(Relationships) THEN Return(Dict(data))
    ELSE LET key == Relationships[i]
         IN IF ~RelationshipExported(obj, key, exclude)
            THEN RelationshipLoop(self, obj, i + 1, exclude, data)
            ELSE LET r == ExportRelationship(self, GetRelationship(obj, key))
                 IN IF r.exc # "none" THEN r
                    ELSE RelationshipLoop(self, obj, i + 1, exclude,
                            [k \in DOMAIN data \cup {key} |->
                                IF k = key THEN r.val ELSE data[k]])

\* persisted is True
Persisted(obj) == obj.persistent

\* ExportData.__call__(obj, include, exclude) of the exporter whose
\* self.exclude is self.
Call(self, obj, include, exclude) ==
    IF obj.kind = "list" THEN CallList(self, obj.items, include, exclude)
    ELSE IF ~obj.sqla THEN Raise("ValueError")
    ELSE LET exclude_all == exclude \cup self
             data == ColumnData(obj, include, exclude_all)
         IN IF Persisted(obj)
            THEN RelationshipLoop(self, obj, 1, exclude_all, data)
            ELSE Return(Dict(data))

\* The relationship keys of obj that the call reads with getattr (line 118),
\* from the i-th key on: the loop stops at the first nested export that raises.
RelationshipsRead(self, obj, i, exclude) ==
    IF i > Len(Relationships) THEN {}
    ELSE LET key == Relationships[i]
         IN IF ~RelationshipExported(obj, key, exclude)
            THEN RelationshipsRead(self, obj, i + 1, exclude)
            ELSE {key} \cup
                 (IF ExportRelationship(self, GetRelationship(obj, key)).exc # "none"
                  THEN {}
                  ELSE RelationshipsRead(self, obj, i + 1, exclude))

\* The instance after the call: reading an unloaded relationship loads it.
AfterCall(self, obj, include, exclude) ==
    IF obj.kind = "list" \/ ~obj.sqla \/ ~Persisted(obj) THEN obj
    ELSE [obj EXCEPT !.unloaded =
              @ \ RelationshipsRead(self, obj, 1, exclude \cup self)]

\* ------------------------------------------------ the exporter's inputs

\* The columns of the exported classes; active declares the default given.
ExportColumns(default) ==
    << Col("id", "int", <<>>, TRUE, <<>>, FALSE, FALSE, FALSE),
       Col("active", "bool", <<>>, FALSE, default, FALSE, TRUE, FALSE),
       Col("org_id", "int", <<>>, FALSE, <<>>, FALSE, FALSE, FALSE) >>

Attrs(id, active, org_id) ==
    [n \in {"id", "active", "org_id"} |->
        CASE n = "id" -> id [] n = "active" -> active [] OTHER -> org_id]

\* Column.default: none, a scalar of each accepted type, a float, a callable.
Defaults ==
    { <<>>, <<PyBool("False")>>, <<PyInt("0")>>, <<PyStr("'n/a'")>>,
      <<[ty |-> "float", v |-> "1.5"]>>, <<[ty |-> "function", v |-> "utcnow"]>> }

\* Instances that differ in their columns: persisted or not, every
\* combination of set and unset attributes, every kind of default.
ColumnObjects ==
    { Object("c", TRUE, p, "absent", ExportColumns(d), Attrs(i, a, o),
             {"org", "posts"}, <<>>, <<>>) :
        p \in BOOLEAN, d \in Defaults, i \in {None, PyInt("1")},
        a \in {None, PyBool("True")}, o \in {None, PyInt("7")} }

FalseDefault == <<PyBool("False")>>

\* A persisted instance with neither related object.
Leaf(ident, cap) ==
    Object(ident, TRUE, TRUE, cap, ExportColumns(FalseDefault),
           Attrs(PyInt(ident), None, PyInt("7")), {}, <<>>, <<>>)

\* An object that is no mapped instance (inspect raises NoInspectionAvailable).
Plain ==
    Object("p", FALSE, FALSE, "absent", <<>>, <<>>, {}, <<>>, <<>>)

\* A persisted instance with both relationships loaded and non-empty.
Middle ==
    Object("3", TRUE, TRUE, "absent", ExportColumns(FalseDefault),
           Attrs(PyInt("3"), None, PyInt("7")), {},
           <<Leaf("1", "absent")>>, <<Leaf("2", "absent")>>)

\* What a relationship or a list may hold.
Elements ==
    { Leaf("1", "absent"), Leaf("4", "returns"), Leaf("5", "AttributeError"),
      Leaf("6", "KeyError"), Plain, Middle }

RECURSIVE ListsUpTo(_, _)
ListsUpTo(S, n) ==
    IF n = 0 THEN {<<>>}
    ELSE LET shorter == ListsUpTo(S, n - 1)
         IN shorter \cup {Append(l, e) : l \in {x \in shorter : Len(x) = n - 1}, e \in S}

\* A persisted instance with each relationship unloaded or loaded with what
\* it may hold.
RelationshipObject(persistent, unloaded, org, posts) ==
    Object("9", TRUE, persistent, "absent", ExportColumns(FalseDefault),
           Attrs(PyInt("9"), None, PyInt("7")), unloaded,
           IF "org" \in unloaded THEN <<>> ELSE org,
           IF "posts" \in unloaded THEN <<>> ELSE posts)

\* Instances that differ in their relationships: the persisted ones with
\* every combination, the others with at most one related object each.
RelationshipObjects ==
    { RelationshipObject(TRUE, u, org, posts) :
        u \in SUBSET {"org", "posts"},
        org \in {<<>>} \cup {<<e>> : e \in Elements},
        posts \in ListsUpTo(Elements, MaxLen) }
    \cup
    { RelationshipObject(FALSE, u, org, posts) :
        u \in SUBSET {"org", "posts"},
        org \in {<<>>, <<Middle>>},
        posts \in {<<>>, <<Middle>>} }

ExportNames == {"id", "active", "org_id", "org", "posts"}

ExportInputs ==
    [obj : ColumnObjects \cup RelationshipObjects \cup {Plain},
     include : SubsetsUpTo(ExportNames, MaxSel),
     exclude : SubsetsUpTo(ExportNames, MaxSel)]

ExportListInputs ==
    [obj : {List(l) : l \in ListsUpTo(Elements \cup {Leaf("7", "returns")}, MaxLen)},
     include : SubsetsUpTo(ExportNames, MaxSel),
     exclude : SubsetsUpTo(ExportNames, MaxSel)]

InitExport ==
    /\ \/ pc = "export" /\ args \in ExportInputs
       \/ pc = "export_list" /\ args \in ExportListInputs
    /\ result = Idle
    /\ validator = Idle
    /\ instance = Idle

\* export_from_sqla_object(obj, include, exclude) on one instance.
ExportInstance ==
    /\ pc = "export"
    /\ result' = Call(export_from_sqla_object, args.obj, args.include, args.exclude)
    /\ instance' = AfterCall(export_from_sqla_object, args.obj, args.include,
                             args.exclude)
    /\ pc' = "export_done"
    /\ UNCHANGED <<args, validator>>

\* export_from_sqla_object(obj, include, exclude) on a list.
ExportList ==
    /\ pc = "export_list"
    /\ result' = Call(export_from_sqla_object, args.obj, args.include, args.exclude)
    /\ pc' = "export_list_done"
    /\ UNCHANGED <<args, validator, instance>>

NextExport == ExportInstance \/ ExportList

SpecExport == InitExport /\ [][NextExport]_vars

\* ------------------------------------------------------------- Validator

\* The mapped class of the validator's and the importer's instances:
\* User(id, email, active).
User == Pick({1, 2, 3}, 1)

\* A string of 121 characters, one more than email's maxlength.
LongEmail ==
    PyStr("aaaaaaaaaaaaaaaaaaaaaaaaaaaaaaaaaaaaaaaaaaaaaaaaaaaaaaaaaaaaaaaaaaaaaaaaaaaaaaaaaaaaaaaaaaaaaaaaaaaaaaaaaaaaaaaaaaaaaaaaa@b.com")

\* A User instance; ident is its identity (`is` compares identities).
Row(ident, id, email, active) ==
    [ident |-> ident, attrs |-> [n \in Names(User) |->
        CASE n = "id" -> id [] n = "email" -> email [] OTHER -> active]]

Row1 == Row("row1", PyInt("1"), PyStr("a@b.com"), PyBool("True"))

Row2 == Row("row2", PyInt("2"), PyStr("c@d.com"), PyBool("False"))

\* A new User, in no table.
Transient == Row("new", None, None, None)

\* model_class.query.filter_by(**{field: value}).first() over the table's
\* rows: <<>> when no row matches.
first(rows, field, value) ==
    LET hits == {i \in DOMAIN rows : rows[i].attrs[field] = value}
    IN IF hits = {} THEN <<>>
       ELSE <<rows[CHOOSE i \in hits : \A j \in hits : i <= j]>>

\* model and (not self.update or model is not self.model)
UniqueError(self, match) ==
    match # <<>> /\ (~self.update \/ match # self.model)

\* Validator._validate_unique: the errors it records for the field, or the
\* RuntimeError it raises.
validate_unique(self, is_unique, field, value) ==
    IF ~is_unique THEN Return({})
    ELSE IF self.model_class = <<>> THEN Raise("RuntimeError")
    ELSE LET model == first(self.model_class[1], field, value)
         IN IF UniqueError(self, model)
            THEN Return({<<field, "unique">>})
            ELSE Return({})

\* Cerberus' type names against Python's values (a bool is no integer there).
TypeMatches(type, value) ==
    CASE type = "integer" -> value.ty = "int"
      [] type = "string" -> value.ty = "str"
      [] type = "boolean" -> value.ty = "bool"
      [] OTHER -> FALSE

\* Whether Cerberus reaches the rules after readonly and type for the field:
\* a readonly field that is present and a value of the wrong type each record
\* their error and drop the field's remaining rules.
ReachesRules(rules, value) ==
    /\ ~("readonly" \in DOMAIN rules /\ rules["readonly"])
    /\ TypeMatches(rules["type"], value)

\* What Cerberus does for one field of the document: the field's errors,
\* or the exception a rule raises.
ValidateField(self, field, value) ==
    IF field \notin DOMAIN self.schema THEN Return({<<field, "unknown field">>})
    ELSE LET rules == self.schema[field]
         IN IF "readonly" \in DOMAIN rules /\ rules["readonly"]
            THEN Return({<<field, "readonly">>})
            ELSE IF ~TypeMatches(rules["type"], value)
            THEN Return({<<field, "type">>})
            ELSE LET maxlength ==
                         IF /\ "maxlength" \in DOMAIN rules
                            /\ value.ty = "str"
                            /\ Len(value.v) > rules["maxlength"]
                         THEN {<<field, "maxlength">>} ELSE {}
                     unique ==
                         IF "unique" \in DOMAIN rules
                         THEN validate_unique(self, rules["unique"], field, value)
                         ELSE Return({})
                 IN IF unique.exc # "none" THEN unique
                    ELSE Return(maxlength \cup unique.val)

\* The required fields the document lacks; Cerberus skips the check on update.
RequiredErrors(self, document) ==
    IF self.update THEN {}
    ELSE {<<f, "required">> : f \in {g \in DOMAIN self.schema \ DOMAIN document :
              "required" \in DOMAIN self.schema[g] /\ self.schema[g]["required"]}}

\* super().validate(document, update=update), self being the validator
\* after self.model = model: every field of the document, then the required
\* fields; a rule that raises ends the call.
CerberusValidate(self, document) ==
    LET each == [f \in DOMAIN document |-> ValidateField(self, f, document[f])]
        raised == {f \in DOMAIN document : each[f].exc # "none"}
    IN IF raised # {} THEN each[CHOOSE f \in raised : TRUE]
       ELSE LET errors == UNION {each[f].val : f \in DOMAIN document}
                              \cup RequiredErrors(self, document)
            IN Return([valid |-> errors = {}, errors |-> errors])

\* The validator's fields after Validator.validate's first statement, and
\* Cerberus' own update flag.
SetModel(self, model, update) ==
    [self EXCEPT !.model = model, !.update = update]

Tables == {<<>>, <<Row1>>, <<Row1, Row2>>}

Schemas ==
    { generate_schema(User, {}, {}, NoArg).val,
      generate_schema(User, {}, {}, Arg({"unique"})).val,
      generate_schema(User, {}, {}, Arg({"readonly", "required"})).val,
      generate_schema(User, {}, {"email"}, NoArg).val }

\* The values a document may give each field; nick is no column of User.
FieldValues ==
    [f \in {"id", "email", "active", "nick"} |->
        CASE f = "id" -> {PyInt("1")}
          [] f = "email" -> {PyStr("a@b.com"), PyStr("c@d.com"), LongEmail, PyInt("5")}
          [] f = "active" -> {PyBool("True")}
          [] OTHER -> {PyStr("x")}]

Documents ==
    UNION {[F -> UNION {FieldValues[f] : f \in F}] : F \in SUBSET DOMAIN FieldValues}

ValidDocuments ==
    {d \in Documents : \A f \in DOMAIN d : d[f] \in FieldValues[f]}

\* Validator(schema, model_class): model_class is <<>> when none is given,
\* and else the class, seen as its table's rows.
InitValidator ==
    /\ pc = "constructed"
    /\ validator \in [schema : Schemas,
                      model_class : {<<>>} \cup {<<t>> : t \in Tables},
                      model : {<<>>}, update : {FALSE}]
    /\ args = Idle
    /\ result = Idle
    /\ instance = Idle

\* Validator.validate(document, model=model, update=update)
Validate ==
    /\ pc \in {"constructed", "validated"}
    /\ \E document \in ValidDocuments, update \in BOOLEAN,
          model \in {<<>>, <<Row1>>, <<Row2>>, <<Transient>>} :
          /\ args' = [document |-> document, model |-> model, update |-> update]
          /\ validator' = SetModel(validator, model, update)
          /\ result' = CerberusValidate(validator', document)
    /\ pc' = "validated"
    /\ UNCHANGED instance

NextValidator == Validate

SpecValidator == InitValidator /\ [][NextValidator]_vars

\* ------------------------------------------------- import_into_sqla_object

\* An assignment of every key, column or not.
setattrAny(attrs, cols, data, key) ==
    [k \in DOMAIN attrs \cup {key} |-> IF k = key THEN data[key] ELSE attrs[k]]

\* if key in mapper.c: setattr(model_instance, key, data[key])
setattr(attrs, cols, data, key) ==
    IF key \in Names(cols) THEN [attrs EXCEPT ![key] = data[key]] ELSE attrs

RECURSIVE ImportLoop(_, _, _, _)
\* for key in data, over the keys still to come.
ImportLoop(attrs, cols, data, keys) ==
    IF keys = {} THEN attrs
    ELSE LET key == CHOOSE k \in keys : TRUE
         IN ImportLoop(setattr(attrs, cols, data, key), cols, data, keys \ {key})

import_into_sqla_object(model_instance, data) ==
    [model_instance EXCEPT
        !.attrs = ImportLoop(model_instance.attrs, User, data, DOMAIN data)]

\* The validator of the resource whose documents are applied: its schema is
\* generate_schema(User, include, exclude).
ImportValidators ==
    { [schema |-> generate_schema(User, i, e, NoArg).val, model_class |-> <<>>,
       model |-> <<>>, update |-> FALSE] :
        i \in SubsetsUpTo(Names(User), MaxSel), e \in SubsetsUpTo(Names(User), MaxSel) }

InitImport ==
    /\ pc = "loaded"
    /\ validator \in ImportValidators
    /\ instance \in {Transient, Row1}
    /\ args = Idle
    /\ result = Idle

\* import_into_sqla_object(instance, data)
ImportInto ==
    /\ pc \in {"loaded", "imported"}
    /\ \E data \in ValidDocuments :
          /\ args' = data
          /\ instance' = import_into_sqla_object(instance, data)
    /\ pc' = "imported"
    /\ UNCHANGED <<validator, result>>

NextImport == ImportInto

SpecImport == InitImport /\ [][NextImport]_vars

\* ------------------------------------------------------------------ claims

Selected(name, include, exclude) ==
    (include = {} \/ name \in include) /\ name \notin exclude

\* C1: when generate_schema returns, the schema's keys are exactly the columns
\* that include and exclude select (exclude wins) and every rule-set has a
\* type; when a selected column's type has no mapping it raises and returns
\* no schema.
C1_SchemaKeysAreSelectedColumns ==
    pc = "schema_done" =>
        LET cols == args.model_class
            sel == {n \in Names(cols) : Selected(n, args.include, args.exclude)}
            unmapped == \E i \in DOMAIN cols :
                           /\ cols[i].name \in sel
                           /\ cols[i].python_type \notin
                                  {"int", "str", "bool", "date", "datetime"}
        IN /\ result.exc = "none" =>
                 /\ DOMAIN result.val = sel
                 /\ \A n \in sel : /\ "type" \in DOMAIN result.val[n]
                                   /\ result.val[n]["type"] \in
                                          {"integer", "string", "boolean"}
           /\ unmapped => result = Raise("LookupError")

\* A schema is returned although the class has a column without a type
\* mapping, because exclude removes it, and another column is kept.
C1_Witness ==
    /\ pc = "schema_done"
    /\ result.exc = "none"
    /\ "score" \in Names(args.model_class)
    /\ args.exclude = {"score"}
    /\ DOMAIN result.val # {}

Strip(rules, kind) == [k \in DOMAIN rules \ {kind} |-> rules[k]]

\* C9: each rule kind is suppressed on its own: adding a kind to
\* exclude_rules removes that kind's entries and nothing else, and maxlength
\* is present exactly for string columns with a length unless maxlength
\* itself is suppressed.
C9_RuleKindsIndependentlySuppressible ==
    (pc = "schema_done" /\ result.exc = "none") =>
        LET rules == ExcludeRules(args.exclude_rules)
            cols == args.model_class
        IN /\ \A kind \in RuleKinds :
                 LET other == generate_schema(cols, args.include, args.exclude,
                                              Arg(rules \cup {kind}))
                 IN /\ other.exc = "none"
                    /\ DOMAIN other.val = DOMAIN result.val
                    /\ \A n \in DOMAIN result.val :
                          other.val[n] = Strip(result.val[n], kind)
           /\ \A i \in DOMAIN cols :
                 cols[i].name \in DOMAIN result.val =>
                    ("maxlength" \in DOMAIN result.val[cols[i].name]
                        <=> /\ cols[i].python_type = "str"
                            /\ cols[i].length # <<>>
                            /\ "maxlength" \notin rules)

IsUnique(schema, f) ==
    f \in DOMAIN schema /\ "unique" \in DOMAIN schema[f] /\ schema[f]["unique"]

\* C2: for a field whose unique rule is checked, validate records a
\* uniqueness violation exactly when the lookup finds a match and either no
\* current instance was passed or the match is another instance.
C2_UniqueViolationIffOtherMatch ==
    (pc = "validated" /\ result.exc = "none") =>
        \A f \in DOMAIN args.document :
            (/\ IsUnique(validator.schema, f)
             /\ ReachesRules(validator.schema[f], args.document[f])) =>
                LET match == first(validator.model_class[1], f, args.document[f])
                IN (<<f, "unique">> \in result.val.errors)
                      <=> (match # <<>> /\ (args.model = <<>> \/ match # args.model))

\* C3: a validator whose schema has a unique rule and that was given no
\* model_class fails every validate call with the configuration error.
C3_MissingLookupAlwaysRaises ==
    (/\ pc = "validated"
     /\ validator.model_class = <<>>
     /\ \E f \in DOMAIN validator.schema : IsUnique(validator.schema, f)) =>
        result.exc = "RuntimeError"

\* The export of one element of a list by its own capability.
ElementExport(item, include, exclude) ==
    IF HasExportData(item)
    THEN export_data(item, Arg(include), Arg(exclude))
    ELSE Call(export_from_sqla_object, item, include, exclude)

\* C4: a list is exported element by element, in order, each element through
\* its own export_data when it has one and through the generic path when it
\* has none, and the first error of an element's export propagates.
C4_ListExportsEachElementByCapability ==
    pc = "export_list_done" =>
        LET items == args.obj.items
            each == [i \in DOMAIN items |->
                        ElementExport(items[i], args.include, args.exclude)]
            failed == {i \in DOMAIN items : each[i].exc # "none"}
        IN IF failed = {}
           THEN result = Return(ListValue([i \in DOMAIN items |-> each[i].val]))
           ELSE result.exc = each[CHOOSE i \in failed : \A j \in failed : i <= j].exc

AllExcluded == args.exclude \cup export_from_sqla_object

\* C5: a relationship is a key of the export only of a persisted instance,
\* only when loaded and not excluded; the call reads no unloaded
\* relationship; a loaded, not excluded to-one relationship without a related
\* instance is a key whose value is None.
C5_RelationshipKeysOnlyWhenLoaded ==
    pc = "export_done" =>
        LET obj == args.obj
        IN /\ instance.unloaded = obj.unloaded
           /\ result.exc = "none" =>
                 /\ \A key \in {"org", "posts"} :
                       key \in DOMAIN result.val.v =>
                          /\ obj.persistent
                          /\ key \notin obj.unloaded
                          /\ key \notin AllExcluded
                 /\ (/\ obj.persistent
                     /\ "org" \notin obj.unloaded
                     /\ "org" \notin AllExcluded
                     /\ obj.org = <<>>) =>
                        /\ "org" \in DOMAIN result.val.v
                        /\ result.val.v["org"] = None

\* A persisted instance whose org is loaded and None and whose posts are not
\* loaded: org is exported as None, posts is no key and stays unloaded.
C5_Witness ==
    /\ pc = "export_done"
    /\ result.exc = "none"
    /\ args.obj.persistent
    /\ args.obj.unloaded = {"posts"}
    /\ args.obj.org = <<>>
    /\ args.exclude = {}
    /\ "org" \in DOMAIN result.val.v
    /\ result.val.v["org"] = None
    /\ "posts" \notin DOMAIN result.val.v
    /\ instance.unloaded = {"posts"}

\* C6: every column that passes the filter is emitted with its live value
\* when the instance is persisted or the value is set, and else with the
\* column's default when that is an int, a str or a bool, and None otherwise.
C6_ColumnValueOrScalarDefault ==
    (pc = "export_done" /\ result.exc = "none") =>
        LET obj == args.obj
        IN \A i \in DOMAIN obj.columns :
              LET c == obj.columns[i]
                  live == obj.attrs[c.name]
              IN Selected(c.name, args.include, AllExcluded) =>
                    /\ c.name \in DOMAIN result.val.v
                    /\ result.val.v[c.name] =
                          IF obj.persistent \/ live # None THEN live
                          ELSE IF /\ c.default # <<>>
                                  /\ c.default[1].ty \in {"int", "str", "bool"}
                          THEN c.default[1]
                          ELSE None

\* An unpersisted instance with nothing set: active gets its default False,
\* id stays None.
C6_Witness ==
    /\ pc = "export_done"
    /\ result.exc = "none"
    /\ ~args.obj.persistent
    /\ args.obj.attrs = Attrs(None, None, None)
    /\ args.obj.columns = ExportColumns(FalseDefault)
    /\ args.include = {}
    /\ args.exclude = {}
    /\ result.val.v = [id |-> None, active |-> PyBool("False")]

RECURSIVE HasKeyDeep(_, _)
\* Whether name is a key of the generic export value, at any depth.
HasKeyDeep(value, name) ==
    CASE value.ty = "dict" ->
            \/ name \in DOMAIN value.v
            \/ \E k \in DOMAIN value.v : HasKeyDeep(value.v[k], name)
      [] value.ty = "list" ->
            \E i \in DOMAIN value.v : HasKeyDeep(value.v[i], name)
      [] OTHER -> FALSE

\* C7: org_id is no key of a generic export, whatever include and exclude
\* are, at any depth of nested instances and lists.
C7_GlobalExclusionAtEveryDepth ==
    (pc \in {"export_done", "export_list_done"} /\ result.exc = "none") =>
        ~HasKeyDeep(result.val, "org_id")

\* include names org_id, and the export nests two levels: the instance's
\* org, and a list element of that org's posts, all of which have an org_id.
C7_Witness ==
    /\ pc = "export_done"
    /\ result.exc = "none"
    /\ args.include = {"org_id"}
    /\ args.obj.persistent
    /\ args.obj.org = <<Middle>>
    /\ args.obj.attrs["org_id"] = PyInt("7")
    /\ result.val.v["org"].ty = "dict"
    /\ result.val.v["org"].v["posts"].ty = "list"
    /\ result.val.v["org"].v["posts"].v[1].ty = "dict"
    /\ "id" \in DOMAIN result.val.v["org"].v["posts"].v[1].v

\* C10: a loaded, not excluded to-many relationship of a persisted instance
\* is exported as a list with one export per related instance, in order, for
\* every number of related instances, zero included.
C10_ToManyIsAlwaysAList ==
    (/\ pc = "export_done"
     /\ result.exc = "none"
     /\ args.obj.persistent
     /\ "posts" \notin args.obj.unloaded
     /\ "posts" \notin AllExcluded) =>
        /\ "posts" \in DOMAIN result.val.v
        /\ result.val.v["posts"].ty = "list"
        /\ Len(result.val.v["posts"].v) = Len(args.obj.posts)
        /\ \A i \in DOMAIN args.obj.posts :
              result.val.v["posts"].v[i] \in
                 { export_data(args.obj.posts[i], Arg({}), Arg({})).val,
                   Call(export_from_sqla_object, args.obj.posts[i], {}, {}).val }

\* What one import changes, if it assigns the document's keys in keys.
ImportAssigns(keys) ==
    pc' = "imported" =>
        /\ DOMAIN instance'.attrs = DOMAIN instance.attrs
        /\ \A c \in DOMAIN instance.attrs :
              instance'.attrs[c] =
                 IF c \in DOMAIN args' \cap keys THEN args'[c] ELSE instance.attrs[c]

\* C8: an import assigns exactly the document's keys that are in the schema
\* the document was validated with, and leaves every other field as it was.
C8_ImportAssignsSchemaKeys ==
    [][ImportAssigns(DOMAIN validator.schema)]_vars

\* C8, amended: an import assigns exactly the document's keys that name a
\* column of the instance's class, in the schema or not, ignores every
\* other key and leaves every other field as it was.
C8_ImportAssignsColumnKeys ==
    [][ImportAssigns(Names(User))]_vars

\* email is left out of the schema, the document carries it with a key that
\* is no column, and the instance's email is the document's.
C8_Witness ==
    /\ pc = "imported"
    /\ "email" \notin DOMAIN validator.schema
    /\ DOMAIN args = {"email", "nick"}
    /\ args["email"] = PyStr("c@d.com")
    /\ instance.attrs["email"] = PyStr("c@d.com")
    /\ DOMAIN instance.attrs = Names(User)

====
